---------------------------- MODULE Spec2Model ----------------------------
(***************************************************************************)
(* Model of the teleop pose tracker (src/teleop/__init__.py): the frame    *)
(* conversion, relative-pose initialisation, pose compounding, pose-jump   *)
(* protection and the subscriber fan-out of class Teleop, together with    *)
(* the websocket endpoint that feeds it, and of the LeTeleop adapter       *)
(* (src/teleop/leteleop/__init__.py), whose get_action runs on a thread of *)
(* its own.                                                                *)
(*                                                                         *)
(* Numbers.  The code works on float64 4x4 matrices.  The model works in   *)
(* exact rational arithmetic: a pose is a record                           *)
(*     [rot |-> 3x3 integer matrix, trans |-> integer 3-vector, den |-> d] *)
(* standing for the rotation rot/d and the translation trans/d, reduced    *)
(* to lowest terms.  One unit of translation is 0.05 m.  Device            *)
(* orientations are quaternions with integer components, for which         *)
(* quat2mat is a rational function, so nothing is rounded.                 *)
(***************************************************************************)
EXTENDS Integers, Sequences, FiniteSets, TLC

(***************************************************************************)
(* Bounds of the model.                                                    *)
(***************************************************************************)
MaxOps == 4
MaxCoord == 3

(***************************************************************************)
(* Integer helpers.                                                        *)
(***************************************************************************)
Abs(x) == IF x < 0 THEN -x ELSE x

\* Euclid's algorithm on a pair of naturals.
GcdNat[p \in Nat \X Nat] == IF p[2] = 0 THEN p[1] ELSE GcdNat[<<p[2], p[1] % p[2]>>]

Gcd(a, b) == GcdNat[<<Abs(a), Abs(b)>>]

Gcd3(v) == Gcd(v[1], Gcd(v[2], v[3]))

(***************************************************************************)
(* Vectors and matrices over the integers (numerators).                    *)
(***************************************************************************)
VecAdd(u, v) == <<u[1] + v[1], u[2] + v[2], u[3] + v[3]>>
VecSub(u, v) == <<u[1] - v[1], u[2] - v[2], u[3] - v[3]>>
VecScale(k, v) == <<k * v[1], k * v[2], k * v[3]>>
VecDiv(v, g) == <<v[1] \div g, v[2] \div g, v[3] \div g>>
Dot(u, v) == u[1] * v[1] + u[2] * v[2] + u[3] * v[3]
Col(M, j) == <<M[1][j], M[2][j], M[3][j]>>
MatVec(M, v) == <<Dot(M[1], v), Dot(M[2], v), Dot(M[3], v)>>
RowMul(r, B) == <<Dot(r, Col(B, 1)), Dot(r, Col(B, 2)), Dot(r, Col(B, 3))>>
MatMul(A, B) == <<RowMul(A[1], B), RowMul(A[2], B), RowMul(A[3], B)>>
Transpose(M) == <<Col(M, 1), Col(M, 2), Col(M, 3)>>
MatScale(k, M) == <<VecScale(k, M[1]), VecScale(k, M[2]), VecScale(k, M[3])>>
MatDiv(M, g) == <<VecDiv(M[1], g), VecDiv(M[2], g), VecDiv(M[3], g)>>
Eye3 == <<<<1, 0, 0>>, <<0, 1, 0>>, <<0, 0, 1>>>>
Zero3 == <<0, 0, 0>>

(***************************************************************************)
(* A pose in lowest terms: rotation R/d, translation t/d.                  *)
(***************************************************************************)
MkPose(R, t, d) ==
    IF d = 1 THEN [rot |-> R, trans |-> t, den |-> 1]
    ELSE LET g == Gcd(d, Gcd(Gcd3(t), Gcd(Gcd3(R[1]), Gcd(Gcd3(R[2]), Gcd3(R[3])))))
         IN  [rot |-> MatDiv(R, g), trans |-> VecDiv(t, g), den |-> d \div g]

\* np.eye(4)
Eye4 == [rot |-> Eye3, trans |-> Zero3, den |-> 1]

\* a @ b for 4x4 homogeneous matrices whose last row is [0, 0, 0, 1]
PoseMul(a, b) ==
    MkPose(MatMul(a.rot, b.rot),
           VecAdd(VecScale(b.den, a.trans), MatVec(a.rot, b.trans)),
           a.den * b.den)

\* np.linalg.inv(a) for a rigid transform a (every matrix the code inverts is
\* one: a converted device pose, or the rotation block of one): [R^T, -R^T t]
PoseInv(a) ==
    MkPose(MatScale(a.den, Transpose(a.rot)),
           VecScale(-1, MatVec(Transpose(a.rot), a.trans)),
           a.den * a.den)

\* The rotation block m[:3, :3] and the translation column m[:3, 3] as
\* fractions of their own.
RotOf(p) ==
    IF p.den = 1 THEN [m |-> p.rot, d |-> 1]
    ELSE LET g == Gcd(p.den, Gcd(Gcd3(p.rot[1]), Gcd(Gcd3(p.rot[2]), Gcd3(p.rot[3]))))
         IN  [m |-> MatDiv(p.rot, g), d |-> p.den \div g]
TransOf(p) ==
    IF p.den = 1 THEN [v |-> p.trans, d |-> 1]
    ELSE LET g == Gcd(p.den, Gcd3(p.trans))
         IN  [v |-> VecDiv(p.trans, g), d |-> p.den \div g]

\* A 4x4 matrix assembled from a rotation block and a translation column.
FromParts(r, t) == MkPose(MatScale(t.d, r.m), VecScale(r.d, t.v), r.d * t.d)

\* Fractions of 3x3 matrices and of 3-vectors, in lowest terms.
MkRot(M, d) == RotOf([rot |-> M, trans |-> Zero3, den |-> d])
MkTrans(v, d) == TransOf([rot |-> Eye3, trans |-> v, den |-> d])
\* A @ B on 3x3 blocks
RotMul(a, b) == MkRot(MatMul(a.m, b.m), a.d * b.d)
\* np.linalg.inv(R) of a rotation block R (orthonormal): its transpose
RotInv(a) == [m |-> Transpose(a.m), d |-> a.d]
\* u + v and u - v on translation columns
TransAdd(u, v) == MkTrans(VecAdd(VecScale(v.d, u.v), VecScale(u.d, v.v)), u.d * v.d)
TransSub(u, v) == MkTrans(VecSub(VecScale(v.d, u.v), VecScale(u.d, v.v)), u.d * v.d)

(***************************************************************************)
(* Frame conversion (Teleop.__update, lines 151-169).                      *)
(***************************************************************************)
\* TF_RUB2FLU, had the last two rows been exchanged.
TF_RUB2FLU_RowsExchanged ==
    [rot |-> <<<<0, 0, -1>>, <<0, 1, 0>>, <<-1, 0, 0>>>>, trans |-> Zero3, den |-> 1]

\* TF_RUB2FLU: device axes (Right, Up, Back) to target axes (Front, Left, Up)
TF_RUB2FLU ==
    [rot |-> <<<<0, 0, -1>>, <<-1, 0, 0>>, <<0, 1, 0>>>>, trans |-> Zero3, den |-> 1]

\* t3d.quaternions.quat2mat(q), q = [w, x, y, z]: the quaternion is not
\* required to be a unit one; a quaternion of norm (nearly) zero gives the
\* identity.  The entries are fractions over Nq = w^2 + x^2 + y^2 + z^2.
quat2mat(q) ==
    LET w == q[1]  x == q[2]  y == q[3]  z == q[4]
        Nq == w * w + x * x + y * y + z * z
    IN  IF Nq = 0
        THEN [m |-> Eye3, d |-> 1]
        ELSE [m |-> << <<Nq - 2 * (y * y + z * z), 2 * (x * y - w * z), 2 * (x * z + w * y)>>,
                       <<2 * (x * y + w * z), Nq - 2 * (x * x + z * z), 2 * (y * z - w * x)>>,
                       <<2 * (x * z - w * y), 2 * (y * z + w * x), Nq - 2 * (x * x + y * y)>> >>,
              d |-> Nq]

\* t3d.affines.compose(T, R, [1, 1, 1])
compose(T, R) == FromParts(R, [v |-> T, d |-> 1])

\* t3d.euler.euler2mat(ai, aj, ak) (static xyz axes).  An angle is given by
\* its sine and cosine as fractions s/d, c/d.
euler2mat(ai, aj, ak) ==
    LET D == ai.d * aj.d * ak.d
        si == ai.s  ci == ai.c  sj == aj.s  cj == aj.c  sk == ak.s  ck == ak.c
        cc == ci * ck  cs == ci * sk  sc == si * ck  ss == si * sk
    IN  [m |-> << <<cj * ck * ai.d, sj * sc - cs * aj.d, sj * cc + ss * aj.d>>,
                  <<cj * sk * ai.d, sj * ss + cc * aj.d, sj * cs - sc * aj.d>>,
                  <<-sj * ai.d * ak.d, cj * si * ak.d, cj * ci * ak.d>> >>,
         d |-> D]

\* self.__natural_phone_pose (constructor, lines 104-112)
NaturalPhonePose(position, euler) ==
    compose(position, euler2mat(euler[1], euler[2], euler[3]))

\* The converted device pose received_pose (lines 151-169).
ReceivedPose(message, natural) ==
    LET p == message.position
        o == message.orientation
        position == <<p.x, p.y, p.z>>
        quat == <<o.w, o.x, o.y, o.z>>
        received_pose_rub == compose(position, quat2mat(quat))
        m1 == PoseMul(TF_RUB2FLU, received_pose_rub)
        m2 == FromParts(RotMul(RotOf(m1), RotInv(RotOf(TF_RUB2FLU))), TransOf(m1))
    IN  PoseMul(m2, natural)

(***************************************************************************)
(* are_close (lines 30-49).  A linear tolerance is a number of translation *)
(* units; an angular tolerance below 90 degrees is given by a fraction     *)
(* n/d standing for its tangent, so that |atan2(y, x)| <= ang_tol is       *)
(* decided on integers.                                                    *)
(***************************************************************************)
\* |atan2(y, x)| <= tol, for y and x over a common positive denominator
AtanWithin(y, x, tol) ==
    IF y = 0 THEN x >= 0
    ELSE x > 0 /\ Abs(y) * tol.d <= tol.n * x

\* |atan2(y, sqrt(x2))| <= tol, for x2 >= 0 the square of the second argument
AtanSqrtWithin(y, x2, tol) ==
    IF y = 0 THEN TRUE
    ELSE x2 > 0 /\ y * y * tol.d * tol.d <= tol.n * tol.n * x2

\* np.allclose(t3d.euler.mat2euler(M), np.zeros(3), atol=tol): mat2euler
\* (static xyz) takes cy = sqrt(M[0,0]^2 + M[1,0]^2) and, when cy > 0,
\* ax = atan2(M[2,1], M[2,2]), ay = atan2(-M[2,0], cy), az = atan2(M[1,0], M[0,0]);
\* otherwise ax = atan2(-M[1,2], M[1,1]), ay = atan2(-M[2,0], cy), az = 0.
EulerAllClose(M, tol) ==
    LET cy2 == M[1][1] * M[1][1] + M[2][1] * M[2][1]
    IN  IF cy2 > 0
        THEN /\ AtanWithin(M[3][2], M[3][3], tol)
             /\ AtanSqrtWithin(-M[3][1], cy2, tol)
             /\ AtanWithin(M[2][1], M[1][1], tol)
        ELSE /\ AtanWithin(-M[2][3], M[2][2], tol)
             /\ AtanSqrtWithin(-M[3][1], cy2, tol)

\* np.allclose(d[:3, 3], np.zeros(3), atol=lin_tol): every component within
\* lin_tol of zero (the relative tolerance multiplies zero)
TransAllClose(t, lin_tol) ==
    \A i \in 1..3 : Abs(t.v[i]) <= lin_tol * t.d

\* are_close, had the translation been compared by its Euclidean norm.
are_close_Norm(a, b, lin_tol, ang_tol) ==
    LET d == PoseMul(PoseInv(a), b)
        t == TransOf(d)
    IN  IF Dot(t.v, t.v) > lin_tol * lin_tol * t.d * t.d
        THEN FALSE
        ELSE EulerAllClose(RotOf(d).m, ang_tol)

\* are_close, had the inverse of a been left out of the relative transform.
are_close_NoInverse(a, b, lin_tol, ang_tol) ==
    LET d == PoseMul(a, b)
    IN  IF ~TransAllClose(TransOf(d), lin_tol)
        THEN FALSE
        ELSE EulerAllClose(RotOf(d).m, ang_tol)

are_close(a, b, lin_tol, ang_tol) ==
    LET d == PoseMul(PoseInv(a), b)
    IN  IF ~TransAllClose(TransOf(d), lin_tol)
        THEN FALSE
        ELSE EulerAllClose(RotOf(d).m, ang_tol)

\* lin_tol=10e-2 of the jump check: 0.1 m in units of 0.05 m
LinTol == 2
\* ang_tol=math.radians(35) of the jump check: tan(35 deg) = 0.70020..., as
\* the fraction 7/10 (no tangent the model's rotations give lies between)
AngTol == [n |-> 7, d |-> 10]

(***************************************************************************)
(* Inputs.                                                                 *)
(***************************************************************************)
\* An optional value: None, or a one-element tuple.
None == <<>>
Some(v) == <<v>>

\* Device positions, in units of 0.05 m: the device rises along its Y axis,
\* and from the fourth position on also moves to its right and forward.
NumPositions == MaxCoord + 1
Position(i) == [x |-> (i - 1) \div 3, y |-> i - 1, z |-> -((i - 1) \div 3)]
Positions == {Position(i) : i \in 1..NumPositions}

\* Device orientations [w, x, y, z]: the identity; a turn of 22.6 degrees
\* about the device's Z axis (cosine 12/13), not normalised; a turn of 90
\* degrees about it, not normalised; and the zero quaternion, which no
\* rotation normalises to.
OrientationList ==
    <<[w |-> 1, x |-> 0, y |-> 0, z |-> 0], [w |-> 5, x |-> 0, y |-> 0, z |-> 1],
      [w |-> 1, x |-> 0, y |-> 0, z |-> 1], [w |-> 0, x |-> 0, y |-> 0, z |-> 0]>>

\* The messages of type "pose": the move=true ones, unturned at every
\* position, and with each turn and with the zero quaternion at the first
\* two; two move=false ones (__update does not read the position and the
\* orientation of these); and one that lacks its "orientation" key.
WellFormed ==
    [move : {TRUE}, position : Positions, orientation : {OrientationList[1]}]
      \cup [move : {TRUE}, position : {Position(1), Position(2)},
            orientation : {OrientationList[j] : j \in 2..4}]
      \cup [move : {FALSE}, position : {Position(1)},
            orientation : {OrientationList[1], OrientationList[4]}]
Messages == WellFormed \cup {[move |-> TRUE, position |-> Position(1)]}

\* Angles by sine and cosine: 0, and a pitch of -36.87 degrees (sine -3/5,
\* cosine 4/5) for a device held tilted, as the default of -45 degrees is.
Angle0 == [s |-> 0, c |-> 1, d |-> 1]
AngleTilt == [s |-> -3, c |-> 4, d |-> 5]

\* The natural phone poses the constructor is given: no offset (position
\* [0, 0, 0], orientation [0, 0, 0]), and a tilted device held 0.05 m off.
NaturalList ==
    <<NaturalPhonePose(Zero3, <<Angle0, Angle0, Angle0>>),
      NaturalPhonePose(<<0, 0, 1>>, <<Angle0, AngleTilt, Angle0>>)>>

\* The pose set_pose is called with: the robot's end-effector, turned a
\* quarter about X and away from the origin.
RobotPose == [rot |-> <<<<1, 0, 0>>, <<0, 0, -1>>, <<0, 1, 0>>>>, trans |-> <<4, 0, 1>>, den |-> 1]
SetPoses == {RobotPose}

\* The subscribers' handlers; "bad" raises when it is called.
Handlers == {"h1", "bad"}
Raises(h) == h = "bad"

(***************************************************************************)
(* Tables.  The converted poses are finitely many: one for each natural    *)
(* phone pose c, position i and orientation j, numbered Key(c, i, j).  The *)
(* tables hold ReceivedPose, are_close and Relative on them.               *)
(***************************************************************************)
NumKeys == 2 * NumPositions * 4
Key(c, i, j) == ((c - 1) * NumPositions + (i - 1)) * 4 + j
KeyNatural(k) == ((k - 1) \div (4 * NumPositions)) + 1
KeyPosition(k) == (((k - 1) \div 4) % NumPositions) + 1
KeyOrientation(k) == ((k - 1) % 4) + 1

ReceivedTable ==
    [k \in 1..NumKeys |->
        ReceivedPose([move |-> TRUE, position |-> Position(KeyPosition(k)),
                      orientation |-> OrientationList[KeyOrientation(k)]],
                     NaturalList[KeyNatural(k)])]

\* The number of a converted pose, among those of natural phone pose c.
KeyOfPose(p, c) ==
    CHOOSE k \in Key(c, 1, 1)..Key(c, NumPositions, 4) : ReceivedTable[k] = p

JumpTable ==
    [k \in 1..NumKeys |-> [l \in 1..NumKeys |->
        ~are_close(ReceivedTable[k], ReceivedTable[l], LinTol, AngTol)]]

\* Relative, had the reference pose of the gesture not been taken off.
Relative_NoReference(received, relative_init) ==
    [position |-> TransOf(received), orientation |-> RotOf(received)]

\* Lines 191-194: the device's motion since the start of the gesture.
Relative(received, relative_init) ==
    [position |-> TransSub(TransOf(received), TransOf(relative_init)),
     orientation |-> RotMul(RotOf(received), RotInv(RotOf(relative_init)))]

RelativeTable ==
    [k \in 1..NumKeys |-> [l \in 1..NumKeys |->
        Relative(ReceivedTable[k], ReceivedTable[l])]]

\* Lines 195-197: the new pose, the motion applied to the absolute reference.
Compound(relative, absolute_init) ==
    FromParts(RotMul(relative.orientation, RotOf(absolute_init)),
              TransAdd(TransOf(absolute_init), relative.position))

(***************************************************************************)
(* State of a Teleop object.                                               *)
(***************************************************************************)
VARIABLES
    natural_phone_pose,      \* self.__natural_phone_pose
    relative_pose_init,      \* self.__relative_pose_init
    absolute_pose_init,      \* self.__absolute_pose_init
    previous_received_pose,  \* self.__previous_received_pose
    pose,                    \* self.__pose
    callbacks,               \* self.__callbacks
    nops,                    \* number of calls made so far
    last,                    \* history: the last call and how it ended
    hist,                    \* history: the gesture in progress, as the device saw it
    task,                    \* where each connection's websocket_endpoint coroutine stands
    inbox,                   \* the frames that have arrived on each connection, unread
    running,                 \* the coroutine the event loop is executing, if any
    current,                 \* the message of the __update call in progress, if any
    pending,                 \* the handlers __notify_subscribers has yet to call
    probe,                   \* a call of are_close: its arguments and its result
    config,                  \* LeTeleop: self.config (use_gripper)
    _last_pose,              \* LeTeleop: self._last_pose
    _gripper_state,          \* LeTeleop: self._gripper_state
    _home,                   \* LeTeleop: self._home
    _mutex,                  \* LeTeleop: the thread that holds self._mutex, if any
    server_thread,           \* LeTeleop: where _on_teleop_callback stands, and its arguments
    control_thread,          \* LeTeleop: where get_action stands, and its locals
    heap,                    \* the numpy arrays in memory: the contents of each object
    ref,                     \* the object each attribute of the Teleop object refers to
    delivered                \* the objects passed to the subscribers, in order

teleop_vars == <<natural_phone_pose, relative_pose_init, absolute_pose_init,
                 previous_received_pose, pose, callbacks, nops, last, hist>>
loop_vars == <<task, inbox, running, current, pending>>
le_vars == <<config, _last_pose, _gripper_state, _home, _mutex, server_thread, control_thread>>
heap_vars == <<heap, ref, delivered>>
vars == <<teleop_vars, loop_vars, probe, le_vars, heap_vars>>

\* The WebSocket connections a server is given.
Connections == {"ws1", "ws2"}

\* A malformed sample: a key is missing, or the quaternion is one that cannot
\* be normalised.
Malformed(message) ==
    \/ {"move", "position", "orientation"} \ DOMAIN message # {}
    \/ message.orientation = [w |-> 0, x |-> 0, y |-> 0, z |-> 0]

\* The history variable last: the last call (op), how it ended (result),
\* its message's move flag, whether the message was malformed, the device
\* position of a move=true message, whether the call processed the first
\* well-formed move=true sample since the construction or the last
\* move=false sample (first), the number of warnings the call logged, the
\* handlers it invoked, in order, and the pose it passed to them.
Last(op, result, message, invoked, notified) ==
    [op |-> op, result |-> result,
     move |-> "move" \in DOMAIN message /\ message.move,
     first |-> op = "update" /\ result # "KeyError" /\ message.move /\ hist.fresh,
     malformed |-> op = "update" /\ Malformed(message),
     position |-> IF op = "update" /\ message.move THEN Some(message.position) ELSE None,
     warnings |-> IF result = "jump" THEN 1 ELSE 0,
     invoked |-> invoked, notified |-> notified]

\* The history variable hist:
\*   fresh     no well-formed move=true sample has been processed since the
\*             construction or the last move=false sample;
\*   accepted  the converted pose of the last move=true sample that was
\*             accepted (compounded and published), if any;
\*   gesture   for the gesture in progress (the move=true samples since the
\*             last move=false sample or rejected jump), the device position
\*             of its first sample and the translation published for it;
\*   moving    the last notification carried move=true, and set_pose has
\*             not been called since;
\*   rejected  the converted pose of the last move=true sample that was
\*             rejected as a jump, if no sample has been accepted since.
HistRelease == [hist EXCEPT !.fresh = TRUE, !.gesture = None, !.moving = FALSE]
HistJump(received_pose) ==
    [hist EXCEPT !.fresh = FALSE, !.gesture = None, !.rejected = Some(received_pose)]
HistSetPose == [hist EXCEPT !.moving = FALSE]
HistPublish(message, received_pose, published) ==
    [fresh |-> FALSE, accepted |-> Some(received_pose), moving |-> TRUE, rejected |-> None,
     gesture |-> IF hist.gesture = None
                 THEN Some([position |-> message.position, published |-> TransOf(published)])
                 ELSE hist.gesture]

NoMessage == [move |-> FALSE]

\* Teleop.__init__ (lines 98-112)
TeleopInit ==
    /\ natural_phone_pose \in {NaturalList[c] : c \in 1..2}
    /\ relative_pose_init = None
    /\ absolute_pose_init = None
    /\ previous_received_pose = None
    /\ callbacks = <<>>
    /\ pose = Eye4
    /\ nops = 0
    /\ last = Last("init", "none", NoMessage, <<>>, None)
    /\ hist = [fresh |-> TRUE, accepted |-> None, gesture |-> None, moving |-> FALSE,
               rejected |-> None]

\* Before Teleop.run: no connection is open, the event loop runs nothing.
LoopIdle ==
    /\ task = [ws \in Connections |-> "none"]
    /\ inbox = [ws \in Connections |-> <<>>]
    /\ running = None
    /\ current = None
    /\ pending = <<>>

\* LeTeleop.__init__ (src/teleop/leteleop/__init__.py, lines 13-24), with
\* use_gripper as given; no callback and no get_action is under way.
LeTeleopInit(use_gripper) ==
    /\ config = [use_gripper |-> use_gripper]
    /\ _home = FALSE
    /\ _gripper_state = 0
    /\ _last_pose = Some(Eye4)
    /\ _mutex = None
    /\ server_thread = [pc |-> "idle", calls |-> 0]
    /\ control_thread = [pc |-> "idle", calls |-> 0, returned |-> None]

\* A Teleop object whose methods are called one after the other.
\* The objects in memory after Teleop.__init__: self.__pose refers to the
\* np.eye(4) of line 102, the other attributes are None (0 here).
HeapInit ==
    /\ heap = <<Eye4>>
    /\ ref = [pose |-> 1, relative_pose_init |-> 0, absolute_pose_init |-> 0,
              previous_received_pose |-> 0]
    /\ delivered = <<>>

\* A Teleop object whose methods are called one after the other.
Init == TeleopInit /\ LoopIdle /\ probe = None /\ LeTeleopInit(TRUE) /\ HeapInit

\* Teleop.set_pose
set_pose(p) ==
    /\ nops < MaxOps
    /\ nops' = nops + 1
    /\ pose' = p
    /\ last' = Last("set_pose", "none", NoMessage, <<>>, None)
    /\ hist' = HistSetPose
    /\ UNCHANGED <<natural_phone_pose, relative_pose_init, absolute_pose_init,
                   previous_received_pose, callbacks>>

\* Teleop.subscribe
subscribe(callback) ==
    /\ nops < MaxOps
    /\ nops' = nops + 1
    /\ callbacks' = Append(callbacks, callback)
    /\ last' = Last("subscribe", "none", NoMessage, <<>>, None)
    /\ UNCHANGED <<natural_phone_pose, relative_pose_init, absolute_pose_init,
                   previous_received_pose, pose, hist>>

\* Teleop.__notify_subscribers: the handlers called, in order; a handler
\* that raises ends the loop, and the exception leaves the method.
Invoked(cbs) ==
    IF \E i \in 1..Len(cbs) : Raises(cbs[i])
    THEN SubSeq(cbs, 1, CHOOSE i \in 1..Len(cbs) :
                            Raises(cbs[i]) /\ \A j \in 1..(i - 1) : ~Raises(cbs[j]))
    ELSE cbs

NotifyResult(cbs) ==
    IF \E i \in 1..Len(cbs) : Raises(cbs[i]) THEN "handler_raised" ELSE "published"

\* The number of the natural phone pose the object was constructed with,
\* and of the converted pose of a well-formed message.
NaturalKey == IF natural_phone_pose = NaturalList[1] THEN 1 ELSE 2
MessageKey(message) ==
    Key(NaturalKey, message.position.y + 1,
        CHOOSE j \in 1..4 : OrientationList[j] = message.orientation)

\* received_pose of lines 162-169, for a well-formed message
Received(message) == ReceivedTable[MessageKey(message)]

\* The jump test of lines 172-178, for the message numbered k.
PoseJump(k) ==
    /\ previous_received_pose # None
    /\ JumpTable[k][KeyOfPose(previous_received_pose[1], NaturalKey)]

\* __update, lines 147-154: a missing key raises KeyError before anything
\* is changed.
update_KeyError(message) ==
    /\ {"move", "position", "orientation"} \ DOMAIN message # {}
    /\ last' = Last("update", "KeyError", message, <<>>, None)
    /\ UNCHANGED <<relative_pose_init, absolute_pose_init, previous_received_pose, pose, hist>>

\* update_release, had the release also reset the output pose.
update_release_ResetsPose(message) ==
    /\ {"move", "position", "orientation"} \subseteq DOMAIN message
    /\ ~message.move
    /\ relative_pose_init' = None
    /\ absolute_pose_init' = None
    /\ pose' = Eye4
    /\ last' = Last("update", NotifyResult(callbacks), message, Invoked(callbacks), Some(pose'))
    /\ hist' = HistRelease
    /\ UNCHANGED previous_received_pose

\* update_release, had the release cleared the absolute reference alone.
update_release_KeepsRelative(message) ==
    /\ {"move", "position", "orientation"} \subseteq DOMAIN message
    /\ ~message.move
    /\ absolute_pose_init' = None
    /\ last' = Last("update", NotifyResult(callbacks), message, Invoked(callbacks), Some(pose))
    /\ hist' = HistRelease
    /\ UNCHANGED <<relative_pose_init, previous_received_pose, pose>>

\* __update, lines 156-160: the device is released.
update_release(message) ==
    /\ {"move", "position", "orientation"} \subseteq DOMAIN message
    /\ ~message.move
    /\ relative_pose_init' = None
    /\ absolute_pose_init' = None
    /\ last' = Last("update", NotifyResult(callbacks), message, Invoked(callbacks), Some(pose))
    /\ hist' = HistRelease
    /\ UNCHANGED <<previous_received_pose, pose>>

\* update_jump, had the jump left the relative reference in place.
update_jump_KeepsReference(message) ==
    /\ {"move", "position", "orientation"} \subseteq DOMAIN message
    /\ message.move
    /\ PoseJump(MessageKey(message))
    /\ previous_received_pose' = Some(Received(message))
    /\ last' = Last("update", "jump", message, <<>>, None)
    /\ hist' = HistJump(Received(message))
    /\ UNCHANGED <<relative_pose_init, absolute_pose_init, pose>>

\* update_jump, had the rejected sample not been kept for the next check.
update_jump_KeepsPrevious(message) ==
    /\ {"move", "position", "orientation"} \subseteq DOMAIN message
    /\ message.move
    /\ PoseJump(MessageKey(message))
    /\ relative_pose_init' = None
    /\ last' = Last("update", "jump", message, <<>>, None)
    /\ hist' = HistJump(Received(message))
    /\ UNCHANGED <<previous_received_pose, absolute_pose_init, pose>>

\* __update, lines 171-182: pose jump protection.
update_jump(message) ==
    /\ {"move", "position", "orientation"} \subseteq DOMAIN message
    /\ message.move
    /\ PoseJump(MessageKey(message))
    /\ relative_pose_init' = None
    /\ previous_received_pose' = Some(Received(message))
    /\ last' = Last("update", "jump", message, <<>>, None)
    /\ hist' = HistJump(Received(message))
    /\ UNCHANGED <<absolute_pose_init, pose>>

\* __update, lines 183-200: the sample is accepted, compounded and published.
update_publish(message) ==
    /\ {"move", "position", "orientation"} \subseteq DOMAIN message
    /\ message.move
    /\ ~PoseJump(MessageKey(message))
    /\ LET received_pose == Received(message)
           first == relative_pose_init = None
           relative_init == IF first THEN received_pose ELSE relative_pose_init[1]
           absolute_init == IF first THEN pose ELSE absolute_pose_init[1]
           k == MessageKey(message)
           relative == RelativeTable[k][IF first THEN k ELSE KeyOfPose(relative_init, NaturalKey)]
       IN  /\ previous_received_pose' = IF first THEN None ELSE Some(received_pose)
           /\ relative_pose_init' = Some(relative_init)
           /\ absolute_pose_init' = Some(absolute_init)
           /\ pose' = Compound(relative, absolute_init)
           /\ hist' = HistPublish(message, received_pose, pose')
    /\ last' = Last("update", NotifyResult(callbacks), message, Invoked(callbacks), Some(pose'))

\* Teleop.__update, called by websocket_endpoint for a message of type "pose"
update(message) ==
    /\ nops < MaxOps
    /\ nops' = nops + 1
    /\ \/ update_KeyError(message)
       \/ update_release(message)
       \/ update_jump(message)
       \/ update_publish(message)
    /\ UNCHANGED <<natural_phone_pose, callbacks>>

Next ==
    \/ \E p \in SetPoses : set_pose(p) /\ UNCHANGED <<loop_vars, probe, le_vars, heap_vars>>
    \/ \E h \in Handlers : subscribe(h) /\ UNCHANGED <<loop_vars, probe, le_vars, heap_vars>>
    \/ \E message \in Messages : update(message) /\ UNCHANGED <<loop_vars, probe, le_vars, heap_vars>>

Spec == Init /\ [][Next]_vars

(***************************************************************************)
(* The server: one websocket_endpoint coroutine for each connection, all   *)
(* run by the one asyncio event loop of uvicorn.  The loop executes one    *)
(* coroutine at a time, and a coroutine keeps the loop until it reaches an *)
(* await; websocket_endpoint awaits connect and receive_text only, and     *)
(* __update and the handlers, called as plain functions, await nothing.    *)
(***************************************************************************)
\* The messages the connections carry: the first sample of a gesture, a
\* small motion, a jump, a release, and a message that lacks a key.
LoopMessages ==
    {[move |-> TRUE, position |-> Position(1), orientation |-> OrientationList[1]],
     [move |-> TRUE, position |-> Position(2), orientation |-> OrientationList[2]],
     [move |-> TRUE, position |-> Position(NumPositions), orientation |-> OrientationList[3]],
     [move |-> FALSE, position |-> Position(1), orientation |-> OrientationList[1]],
     [move |-> TRUE, position |-> Position(1)]}

\* The frames that have arrived or are being taken up, not yet processed.
InFlight ==
    Len(inbox["ws1"]) + Len(inbox["ws2"])
      + Cardinality({ws \in Connections : task[ws] = "update"})

\* Teleop.subscribe, called before Teleop.run, which blocks.
loop_subscribe(callback) ==
    /\ \A ws \in Connections : task[ws] = "none"
    /\ subscribe(callback)
    /\ UNCHANGED <<loop_vars, probe, le_vars, heap_vars>>

\* websocket_endpoint, lines 217-219: the connection is accepted and the
\* coroutine suspends at its first await websocket.receive_text().
connect(ws) ==
    /\ running = None
    /\ task[ws] = "none"
    /\ task' = [task EXCEPT ![ws] = "receive"]
    /\ UNCHANGED <<teleop_vars, inbox, running, current, pending, probe, le_vars, heap_vars>>

\* A frame arrives on a connection; the socket buffers it, whatever the
\* event loop is executing.
frame_arrives(ws, message) ==
    /\ task[ws] \in {"receive", "update", "notify"}
    /\ nops + InFlight < MaxOps
    /\ inbox' = [inbox EXCEPT ![ws] = Append(@, message)]
    /\ UNCHANGED <<teleop_vars, task, running, current, pending, probe, le_vars, heap_vars>>

\* receive_text, had the event loop resumed a coroutine while another was
\* executing (as a thread for each connection would).
receive_text_Preemptive(ws) ==
    /\ task[ws] = "receive"
    /\ inbox[ws] # <<>>
    /\ task' = [task EXCEPT ![ws] = "update"]
    /\ running' = Some(ws)
    /\ current' = Some(Head(inbox[ws]))
    /\ inbox' = [inbox EXCEPT ![ws] = Tail(@)]
    /\ UNCHANGED <<teleop_vars, pending, probe, le_vars, heap_vars>>

\* websocket_endpoint, lines 223-228: the event loop, executing nothing,
\* resumes the coroutine with the frame; the message is of type "pose" and
\* __update is entered.
receive_text(ws) ==
    /\ running = None
    /\ task[ws] = "receive"
    /\ inbox[ws] # <<>>
    /\ task' = [task EXCEPT ![ws] = "update"]
    /\ running' = Some(ws)
    /\ current' = Some(Head(inbox[ws]))
    /\ inbox' = [inbox EXCEPT ![ws] = Tail(@)]
    /\ UNCHANGED <<teleop_vars, pending, probe, le_vars, heap_vars>>

\* __update, lines 147-197, in the running coroutine: the state of the
\* tracker is updated.  A KeyError leaves websocket_endpoint, which ends; a
\* jump returns to the await; otherwise __notify_subscribers is entered.
update_body(ws) ==
    /\ running = Some(ws)
    /\ task[ws] = "update"
    /\ update(current[1])
    /\ IF last'.result = "KeyError"
       THEN task' = [task EXCEPT ![ws] = "ended"] /\ running' = None /\ current' = None
                 /\ pending' = <<>>
       ELSE IF last'.result = "jump"
       THEN task' = [task EXCEPT ![ws] = "receive"] /\ running' = None /\ current' = None
                 /\ pending' = <<>>
       ELSE task' = [task EXCEPT ![ws] = "notify"] /\ pending' = callbacks
                 /\ UNCHANGED <<running, current>>
    /\ UNCHANGED <<inbox, probe, le_vars, heap_vars>>

\* __notify_subscribers, lines 143-144: the next handler is called.  If it
\* raises, the exception leaves __update and websocket_endpoint, which ends.
notify_subscriber(ws) ==
    /\ running = Some(ws)
    /\ task[ws] = "notify"
    /\ pending # <<>>
    /\ IF Raises(Head(pending))
       THEN task' = [task EXCEPT ![ws] = "ended"] /\ running' = None /\ current' = None
                 /\ pending' = <<>>
       ELSE pending' = Tail(pending) /\ UNCHANGED <<task, running, current>>
    /\ UNCHANGED <<teleop_vars, inbox, probe, le_vars, heap_vars>>

\* __update returns (line 160 or 200) and the coroutine is back at
\* await websocket.receive_text().
update_returns(ws) ==
    /\ running = Some(ws)
    /\ task[ws] = "notify"
    /\ pending = <<>>
    /\ task' = [task EXCEPT ![ws] = "receive"]
    /\ running' = None
    /\ current' = None
    /\ UNCHANGED <<teleop_vars, inbox, pending, probe, le_vars, heap_vars>>

\* websocket_endpoint, lines 232-234: the peer has closed the connection;
\* receive_text raises WebSocketDisconnect.
disconnect(ws) ==
    /\ running = None
    /\ task[ws] = "receive"
    /\ inbox[ws] = <<>>
    /\ task' = [task EXCEPT ![ws] = "ended"]
    /\ UNCHANGED <<teleop_vars, inbox, running, current, pending, probe, le_vars, heap_vars>>

LoopNext ==
    \/ \E h \in Handlers : loop_subscribe(h)
    \/ \E ws \in Connections : connect(ws)
    \/ \E ws \in Connections : \E message \in LoopMessages : frame_arrives(ws, message)
    \/ \E ws \in Connections : receive_text(ws)
    \/ \E ws \in Connections : update_body(ws)
    \/ \E ws \in Connections : notify_subscriber(ws)
    \/ \E ws \in Connections : update_returns(ws)
    \/ \E ws \in Connections : disconnect(ws)

LoopSpec == Init /\ [][LoopNext]_vars

(***************************************************************************)
(* are_close on its own: called once on two poses and two tolerances.      *)
(***************************************************************************)
\* Rotations about the Z axis, as quaternions [w, x, y, z] (not normalised):
\* by 0, 22.62, 36.87, 53.13 and 90 degrees.
ProbeQuats == <<<<1, 0, 0, 0>>, <<5, 0, 0, 1>>, <<3, 0, 0, 1>>, <<2, 0, 0, 1>>, <<1, 0, 0, 1>>>>

\* Translations, in units of 0.05 m.
ProbeTranslations == {<<0, 0, 0>>, <<2, 2, 0>>, <<2, 0, 1>>, <<0, 3, 0>>}

ProbePoses ==
    {compose(t, quat2mat(ProbeQuats[i])) : i \in 1..5, t \in ProbeTranslations}

\* Linear tolerances: 0.1 m, as in the jump check, and 0.05 m.
ProbeLinTols == {LinTol, LinTol - 1}

\* Angular tolerances: 35 degrees, as in the jump check, and 15 degrees
\* (tangent 0.26795, as the fraction 15/56).
ProbeAngTols == {AngTol, [n |-> 15, d |-> 56]}

CloseInit ==
    /\ TeleopInit
    /\ LoopIdle
    /\ probe \in {Some([a |-> x, b |-> y, lin_tol |-> l, ang_tol |-> g, result |-> None]) :
                     x \in ProbePoses, y \in ProbePoses, l \in ProbeLinTols, g \in ProbeAngTols}
    /\ LeTeleopInit(TRUE)
    /\ HeapInit

\* are_close(a, b, lin_tol, ang_tol) is called and returns.
call_are_close ==
    /\ probe # None
    /\ probe[1].result = None
    /\ probe' = Some([probe[1] EXCEPT !.result =
                        Some(are_close(probe[1].a, probe[1].b, probe[1].lin_tol, probe[1].ang_tol))])
    /\ UNCHANGED <<teleop_vars, loop_vars, le_vars, heap_vars>>

CloseNext == call_are_close

CloseSpec == CloseInit /\ [][CloseNext]_vars

(***************************************************************************)
(* LeTeleop (src/teleop/leteleop/__init__.py): _on_teleop_callback runs on *)
(* the thread of the server, get_action on the control thread.  Each       *)
(* action is one read or write of a field of the object; a thread that     *)
(* enters "with self._mutex" waits until no thread holds the mutex.        *)
(***************************************************************************)
\* The poses and the messages the server hands to the callback: gripper is
\* null, "open" or "close", reservedButtonA is null, true or false.
LePoses == SetPoses
LeMessages ==
    [move : BOOLEAN, gripper : {None, Some("open"), Some("close")},
     reservedButtonA : {None, Some(TRUE), Some(FALSE)}]

\* The action get_action builds from a pose (or None), a gripper state and
\* a home flag (lines 76-83): the keys that are left out are None here.
Action(last_pose, gripper_state, home) ==
    [pose_from_initial |-> last_pose,
     gripper |-> IF config.use_gripper THEN Some(gripper_state) ELSE None,
     home |-> IF home THEN Some(TRUE) ELSE None]

\* The action get_action would return, were it to run now with no callback
\* under way.
CurrentAction == Action(_last_pose, _gripper_state, _home)

LeInit ==
    /\ TeleopInit
    /\ natural_phone_pose = NaturalList[1]
    /\ LoopIdle
    /\ probe = None
    /\ \E use_gripper \in BOOLEAN : LeTeleopInit(use_gripper)
    /\ HeapInit

\* _on_teleop_callback, line 27: the server thread calls the handler and
\* enters the with block.
callback_enter(p, message) ==
    /\ server_thread.pc = "idle"
    /\ server_thread.calls + control_thread.calls < MaxOps
    /\ _mutex = None
    /\ _mutex' = Some("server")
    /\ server_thread' = [pc |-> "last_pose", calls |-> server_thread.calls + 1,
                         pose |-> p, message |-> message]
    /\ UNCHANGED <<config, _last_pose, _gripper_state, _home, control_thread>>

\* lines 28-31
callback_last_pose ==
    /\ server_thread.pc = "last_pose"
    /\ _last_pose' = IF server_thread.message.move THEN Some(server_thread.pose) ELSE None
    /\ server_thread' = [server_thread EXCEPT !.pc = "gripper"]
    /\ UNCHANGED <<config, _gripper_state, _home, _mutex, control_thread>>

\* lines 33-34
callback_gripper ==
    /\ server_thread.pc = "gripper"
    /\ _gripper_state' =
          IF server_thread.message.gripper # None
          THEN (IF server_thread.message.gripper[1] = "open" THEN 2 ELSE 0)
          ELSE _gripper_state
    /\ server_thread' = [server_thread EXCEPT !.pc = "home"]
    /\ UNCHANGED <<config, _last_pose, _home, _mutex, control_thread>>

\* lines 35-37
callback_home ==
    /\ server_thread.pc = "home"
    /\ _home' = (/\ server_thread.message.reservedButtonA # None
                 /\ server_thread.message.reservedButtonA[1])
    /\ server_thread' = [server_thread EXCEPT !.pc = "exit"]
    /\ UNCHANGED <<config, _last_pose, _gripper_state, _mutex, control_thread>>

\* The with block of line 27 is left and the callback returns.  While a
\* get_action call is under way, the action that matches the object as this
\* callback leaves it is added to the ones the call may consistently return.
callback_exit ==
    /\ server_thread.pc = "exit"
    /\ _mutex' = None
    /\ server_thread' = [pc |-> "idle", calls |-> server_thread.calls]
    /\ control_thread' =
          IF control_thread.pc = "idle" THEN control_thread
          ELSE [control_thread EXCEPT !.consistent = @ \cup {CurrentAction}]
    /\ UNCHANGED <<config, _last_pose, _gripper_state, _home>>

\* get_action, lines 71-72: the control thread enters the with block.
get_action_enter ==
    /\ control_thread.pc = "idle"
    /\ server_thread.calls + control_thread.calls < MaxOps
    /\ _mutex = None
    /\ _mutex' = Some("control")
    /\ control_thread' = [pc |-> "copy", calls |-> control_thread.calls + 1, returned |-> None,
                          last_pose |-> None, action |-> Action(None, 0, FALSE),
                          consistent |-> {CurrentAction}]
    /\ UNCHANGED <<config, _last_pose, _gripper_state, _home, server_thread>>

\* lines 73-74: the pose is copied
get_action_copy ==
    /\ control_thread.pc = "copy"
    /\ control_thread' = [control_thread EXCEPT !.pc = "unlock", !.last_pose = _last_pose]
    /\ UNCHANGED <<config, _last_pose, _gripper_state, _home, _mutex, server_thread>>

\* The with block is left; lines 76-78 work on locals only.
get_action_unlock ==
    /\ control_thread.pc = "unlock"
    /\ _mutex' = None
    /\ control_thread' =
          [control_thread EXCEPT !.pc = "gripper",
                                 !.action.pose_from_initial = control_thread.last_pose]
    /\ UNCHANGED <<config, _last_pose, _gripper_state, _home, server_thread>>

\* lines 79-80
get_action_gripper ==
    /\ control_thread.pc = "gripper"
    /\ control_thread' =
          [control_thread EXCEPT !.pc = "home",
                                 !.action.gripper = IF config.use_gripper
                                                    THEN Some(_gripper_state) ELSE None]
    /\ UNCHANGED <<config, _last_pose, _gripper_state, _home, _mutex, server_thread>>

\* lines 81-82
get_action_home ==
    /\ control_thread.pc = "home"
    /\ control_thread' =
          [control_thread EXCEPT !.pc = "return",
                                 !.action.home = IF _home THEN Some(TRUE) ELSE None]
    /\ UNCHANGED <<config, _last_pose, _gripper_state, _home, _mutex, server_thread>>

\* line 83
get_action_return ==
    /\ control_thread.pc = "return"
    /\ control_thread' =
          [pc |-> "idle", calls |-> control_thread.calls,
           returned |-> Some([action |-> control_thread.action,
                              consistent |-> control_thread.consistent])]
    /\ UNCHANGED <<config, _last_pose, _gripper_state, _home, _mutex, server_thread>>

LeNext ==
    \/ \E p \in LePoses : \E message \in LeMessages :
          callback_enter(p, message) /\ UNCHANGED <<teleop_vars, loop_vars, probe, heap_vars>>
    \/ callback_last_pose /\ UNCHANGED <<teleop_vars, loop_vars, probe, heap_vars>>
    \/ callback_gripper /\ UNCHANGED <<teleop_vars, loop_vars, probe, heap_vars>>
    \/ callback_home /\ UNCHANGED <<teleop_vars, loop_vars, probe, heap_vars>>
    \/ callback_exit /\ UNCHANGED <<teleop_vars, loop_vars, probe, heap_vars>>
    \/ get_action_enter /\ UNCHANGED <<teleop_vars, loop_vars, probe, heap_vars>>
    \/ get_action_copy /\ UNCHANGED <<teleop_vars, loop_vars, probe, heap_vars>>
    \/ get_action_unlock /\ UNCHANGED <<teleop_vars, loop_vars, probe, heap_vars>>
    \/ get_action_gripper /\ UNCHANGED <<teleop_vars, loop_vars, probe, heap_vars>>
    \/ get_action_home /\ UNCHANGED <<teleop_vars, loop_vars, probe, heap_vars>>
    \/ get_action_return /\ UNCHANGED <<teleop_vars, loop_vars, probe, heap_vars>>

LeSpec == LeInit /\ [][LeNext]_vars

(***************************************************************************)
(* The Teleop object by object identity: every numpy array the code        *)
(* creates is an object of heap, numbered in the order of creation, and    *)
(* the attributes of the Teleop object hold the numbers of the objects     *)
(* they refer to (0 for None).  An assignment of a name copies the number; *)
(* an assignment to a slice changes the contents of the object.            *)
(***************************************************************************)
\* The number of the object allocated next, and the n-th after it.
Fresh(objects, n) == Len(objects) + n

\* Lines 195-197, had the slices been assigned into the object self.__pose
\* already refers to.
new_pose_InPlace(objects, value) ==
    [heap |-> [objects EXCEPT ![ref.pose] = value], pose |-> ref.pose]

\* Lines 195-197: self.__pose = np.eye(4) creates an object, the two slice
\* assignments fill it in before anything else refers to it.
new_pose(objects, value) ==
    [heap |-> Append(objects, value), pose |-> Fresh(objects, 1)]

\* Teleop.set_pose: self.__pose refers to the caller's array.
heap_set_pose(p) ==
    /\ nops < MaxOps
    /\ nops' = nops + 1
    /\ heap' = Append(heap, p)
    /\ ref' = [ref EXCEPT !.pose = Fresh(heap, 1)]
    /\ UNCHANGED delivered

\* __update, lines 147-154: a missing key raises KeyError.
heap_update_KeyError(message) ==
    /\ {"move", "position", "orientation"} \ DOMAIN message # {}
    /\ UNCHANGED <<heap, ref, delivered>>

\* __update, lines 156-160
heap_update_release(message) ==
    /\ {"move", "position", "orientation"} \subseteq DOMAIN message
    /\ ~message.move
    /\ ref' = [ref EXCEPT !.relative_pose_init = 0, !.absolute_pose_init = 0]
    /\ delivered' = Append(delivered, [object |-> ref.pose, move |-> FALSE])
    /\ UNCHANGED heap

\* The jump test of lines 172-178 on the objects: received_pose is the
\* converted pose of the message numbered k.
HeapJump(k) ==
    /\ ref.previous_received_pose # 0
    /\ JumpTable[k][KeyOfPose(heap[ref.previous_received_pose], NaturalKey)]

\* __update, lines 162-182: received_pose is a new object (the result of
\* the product of line 169); the jump branch keeps it.
heap_update_jump(message) ==
    /\ {"move", "position", "orientation"} \subseteq DOMAIN message
    /\ message.move
    /\ HeapJump(MessageKey(message))
    /\ heap' = Append(heap, Received(message))
    /\ ref' = [ref EXCEPT !.relative_pose_init = 0,
                          !.previous_received_pose = Fresh(heap, 1)]
    /\ UNCHANGED delivered

\* __update, lines 162-200: received_pose is a new object; the references
\* are assigned (lines 183-189), the new pose is computed from the objects
\* they refer to (lines 191-197) and passed to the subscribers (line 200).
heap_update_publish(message) ==
    /\ {"move", "position", "orientation"} \subseteq DOMAIN message
    /\ message.move
    /\ ~HeapJump(MessageKey(message))
    /\ LET received_pose == Fresh(heap, 1)
           objects == Append(heap, Received(message))
           first == ref.relative_pose_init = 0
           relative_init == IF first THEN received_pose ELSE ref.relative_pose_init
           absolute_init == IF first THEN ref.pose ELSE ref.absolute_pose_init
           value == Compound(Relative(objects[received_pose], objects[relative_init]),
                             objects[absolute_init])
           published == new_pose(objects, value)
       IN  /\ heap' = published.heap
           /\ ref' = [pose |-> published.pose,
                      relative_pose_init |-> relative_init,
                      absolute_pose_init |-> absolute_init,
                      previous_received_pose |-> IF first THEN 0 ELSE received_pose]
           /\ delivered' = Append(delivered, [object |-> published.pose, move |-> TRUE])

\* Teleop.__update
heap_update(message) ==
    /\ nops < MaxOps
    /\ nops' = nops + 1
    /\ \/ heap_update_KeyError(message)
       \/ heap_update_release(message)
       \/ heap_update_jump(message)
       \/ heap_update_publish(message)

HeapNext ==
    \/ \E p \in SetPoses :
          /\ heap_set_pose(p)
          /\ UNCHANGED <<natural_phone_pose, relative_pose_init, absolute_pose_init,
                         previous_received_pose, pose, callbacks, last, hist,
                         loop_vars, probe, le_vars>>
    \/ \E message \in LoopMessages :
          /\ heap_update(message)
          /\ UNCHANGED <<natural_phone_pose, relative_pose_init, absolute_pose_init,
                         previous_received_pose, pose, callbacks, last, hist,
                         loop_vars, probe, le_vars>>

HeapSpec == Init /\ [][HeapNext]_vars

(***************************************************************************)
(* Properties of the tracker.                                              *)
(***************************************************************************)
\* The step is the processing of a well-formed sample with move=true /
\* move=false; it published a pose.
MoveStep == last'.op = "update" /\ last'.result # "KeyError" /\ last'.move
ReleaseStep == last'.op = "update" /\ last'.result # "KeyError" /\ ~last'.move
JumpStep == last'.op = "update" /\ last'.result = "jump"
Published == last.op = "update" /\ last.notified # None

\* The converted pose of the sample a MoveStep processed.
StepReceived ==
    IF last'.result = "jump" THEN hist'.rejected[1] ELSE hist'.accepted[1]

\* C1.  Jump rejection: a move=true sample whose converted pose is not within
\* the tolerances (0.1 m, 35 degrees) of the previous accepted move=true
\* sample does not change the output pose, resets relative_pose_init to
\* None and logs exactly one warning.
C1_JumpRejection ==
    [][(/\ MoveStep
        /\ hist.accepted # None
        /\ ~are_close(StepReceived, hist.accepted[1], LinTol, AngTol))
       => (pose' = pose /\ relative_pose_init' = None /\ last'.warnings = 1)]_vars

\* C2.  Gesture-start invariance: the first move=true sample after the
\* construction or after a move=false sample leaves the output pose equal in
\* value to what it was before the sample.
C2_GestureStartInvariance ==
    [][last'.first => pose' = pose]_vars

\* C2 witness: a gesture has started after a pause, compounded onto an output
\* pose that an earlier gesture had moved, with the device elsewhere and
\* turned.
C2_Witness ==
    /\ last.first /\ last.result = "published"
    /\ last.position # Some(Position(1))
    /\ pose \notin {Eye4, RobotPose}
    /\ relative_pose_init[1].rot # natural_phone_pose.rot

\* C3.  Idempotence of pause: a move=false sample leaves the output pose
\* unchanged and publishes it; following a call that published a pose, it
\* publishes that same pose again.
C3_PauseIdempotent ==
    [][ReleaseStep =>
         /\ pose' = pose
         /\ last'.notified = Some(pose)
         /\ (Published => last'.notified = last.notified)]_vars

\* C3 witness: a second move=false sample in a row, after the output pose
\* had moved.
C3_Witness ==
    /\ last.op = "update" /\ ~last.move /\ last.notified = Some(pose)
    /\ pose \notin {Eye4, RobotPose}
    /\ hist.accepted # None /\ hist.fresh /\ nops >= 4

\* C4.  Incremental tracking: with no orientation offset and no position
\* offset, the translation published during a gesture is the translation
\* published at the gesture's start plus the difference between the
\* current device position and that of the gesture's first sample, device
\* (x, y, z) mapped to (-z, -x, y), whatever the samples in between (and
\* whatever the device's orientation).
AxisRemap(d) == <<-d.z, -d.x, d.y>>
PositionDiff(p, q) == [x |-> p.x - q.x, y |-> p.y - q.y, z |-> p.z - q.z]
C4_IncrementalTracking ==
    (/\ natural_phone_pose = Eye4
     /\ last.op = "update" /\ last.move /\ last.notified # None
     /\ hist.gesture # None)
    => TransOf(pose) =
         TransAdd(hist.gesture[1].published,
                  [v |-> AxisRemap(PositionDiff(last.position[1], hist.gesture[1].position)),
                   d |-> 1])

\* C4 witness: the device has moved up its Y axis by 0.05 m and 0.05 m again
\* from the gesture's first sample; the output is 0.10 m up the Z axis.
C4_Witness ==
    /\ natural_phone_pose = Eye4
    /\ last.op = "update" /\ last.move /\ last.notified # None
    /\ hist.gesture # None
    /\ hist.gesture[1].published = [v |-> Zero3, d |-> 1]
    /\ hist.gesture[1].position = Position(1)
    /\ last.position[1].y = hist.gesture[1].position.y + 2
    /\ previous_received_pose # None
    /\ pose.trans = <<0, 0, 2>> /\ pose.den = 1
    /\ nops = 3

\* C5.  Subscriber failure isolation: when a handler raises during a
\* notification, every handler registered after it is still invoked, and
\* the failure does not leave the processing of the sample.
C5_FailureIsolation ==
    Published =>
      /\ \A i \in 1..Len(callbacks) :
            Raises(callbacks[i]) =>
              \A j \in (i + 1)..Len(callbacks) :
                 Len(last.invoked) >= j /\ last.invoked[j] = callbacks[j]
      /\ last.result # "handler_raised"

\* C6.  Fan-out ordering: each notification invokes every registered handler
\* exactly once, in the order of registration.
C6_FanoutOrder ==
    Published => last.invoked = callbacks

\* C7 as claimed: after a move=false sample and after a detected jump both
\* reference poses are None.
C7_BothReferencesCleared ==
    (last.op = "update" /\ last.result # "KeyError" /\ (~last.move \/ last.result = "jump"))
    => (relative_pose_init = None /\ absolute_pose_init = None)

\* C7, amended.  After a move=false sample both reference poses are None;
\* after a detected jump relative_pose_init is None and absolute_pose_init
\* is what it was; neither changes the output pose.
C7_ResetOnPauseOrJump ==
    [][/\ ReleaseStep =>
            (relative_pose_init' = None /\ absolute_pose_init' = None /\ pose' = pose)
       /\ JumpStep =>
            (/\ relative_pose_init' = None
             /\ absolute_pose_init' = absolute_pose_init
             /\ pose' = pose)]_vars

\* C7 witness: a jump was detected in the middle of a gesture that had moved
\* the output pose; the absolute reference is still set.
C7_Witness ==
    /\ last.result = "jump"
    /\ relative_pose_init = None /\ absolute_pose_init # None
    /\ pose # absolute_pose_init[1]

\* C8.  Malformed sample rejection: a sample with a missing field or with a
\* quaternion that cannot be normalised changes no variable of the tracker,
\* notifies no subscriber, and is reported to the caller as a failure.
C8_MalformedRejected ==
    [][(last'.op = "update" /\ last'.malformed) =>
         /\ UNCHANGED <<pose, relative_pose_init, absolute_pose_init, previous_received_pose>>
         /\ last'.invoked = <<>> /\ last'.notified = None
         /\ last'.result = "KeyError"]_vars

\* C11.  Bounded output step: between two consecutive notifications that
\* both carry move=true, with no move=false sample and no set_pose call in
\* between, the published pose changes by no more than the tolerances of
\* the jump check (0.1 m on each axis, 35 degrees on each angle).
C11_BoundedOutputStep ==
    [][(hist.moving /\ MoveStep /\ last'.notified # None)
       => are_close(pose, last'.notified[1], LinTol, AngTol)]_vars

\* C12.  The first move=true sample of a gesture (the first one after a
\* move=false sample) is not jump-checked against a pose left over from an
\* earlier gesture: it is accepted, initialises relative_pose_init and
\* absolute_pose_init, and is notified.
C12_FirstSampleAccepted ==
    [][(last'.first /\ ~last.move /\ last.op = "update" /\ last.result # "KeyError")
       => /\ last'.result # "jump"
          /\ last'.warnings = 0
          /\ relative_pose_init' = Some(StepReceived)
          /\ absolute_pose_init' = Some(pose)
          /\ last'.notified # None]_vars

\* C13.  After a move=false sample has been processed,
\* previous_received_pose is None.
C13_ClearedOnRelease ==
    (last.op = "update" /\ last.result # "KeyError" /\ ~last.move)
    => previous_received_pose = None

\* The relative transform inv(P) Q written out: its translation is the
\* displacement from P to Q along the axes of P (the columns of P's
\* rotation), its rotation has the entries column i of P times column j
\* of Q.  RelTrans is over the denominator RelTransDen, RelRot over a
\* positive denominator that the angle tests do not need.
RelTrans(P, Q, i) ==
    Dot(Col(P.rot, i), VecSub(VecScale(P.den, Q.trans), VecScale(Q.den, P.trans)))
RelTransDen(P, Q) == P.den * P.den * Q.den
RelRot(P, Q, i, j) == Dot(Col(P.rot, i), Col(Q.rot, j))

\* |atan2(y, x)| exceeds the angle of tangent tol.n / tol.d (below 90 degrees).
AngleExceeds(y, x, tol) ==
    IF y = 0 THEN x < 0 ELSE x <= 0 \/ Abs(y) * tol.d > tol.n * x

\* Some Euler angle of the rotation of inv(P) Q exceeds tol: about X,
\* atan2(M32, M33); about Y, atan2(-M31, sqrt(M11^2 + M21^2)); about Z,
\* atan2(M21, M11); a rotation by 90 degrees about Y exceeds it.
SomeAngleExceeds(P, Q, tol) ==
    LET cy2 == RelRot(P, Q, 1, 1) * RelRot(P, Q, 1, 1) + RelRot(P, Q, 2, 1) * RelRot(P, Q, 2, 1)
        m31 == RelRot(P, Q, 3, 1)
    IN  \/ cy2 = 0
        \/ AngleExceeds(RelRot(P, Q, 3, 2), RelRot(P, Q, 3, 3), tol)
        \/ m31 * m31 * tol.d * tol.d > tol.n * tol.n * cy2
        \/ AngleExceeds(RelRot(P, Q, 2, 1), RelRot(P, Q, 1, 1), tol)

SomeAxisExceeds(P, Q, lin_tol) ==
    \E i \in 1..3 : Abs(RelTrans(P, Q, i)) > lin_tol * RelTransDen(P, Q)

NormExceeds(P, Q, lin_tol) ==
    RelTrans(P, Q, 1) * RelTrans(P, Q, 1) + RelTrans(P, Q, 2) * RelTrans(P, Q, 2)
      + RelTrans(P, Q, 3) * RelTrans(P, Q, 3)
    > lin_tol * lin_tol * RelTransDen(P, Q) * RelTransDen(P, Q)

\* The two tests on the converted poses of the messages, by their numbers.
NormTable ==
    [k \in 1..NumKeys |-> [l \in 1..NumKeys |->
        \/ NormExceeds(ReceivedTable[k], ReceivedTable[l], LinTol)
        \/ SomeAngleExceeds(ReceivedTable[k], ReceivedTable[l], AngTol)]]
AxisTable ==
    [k \in 1..NumKeys |-> [l \in 1..NumKeys |->
        \/ SomeAxisExceeds(ReceivedTable[k], ReceivedTable[l], LinTol)
        \/ SomeAngleExceeds(ReceivedTable[k], ReceivedTable[l], AngTol)]]
StepKey == KeyOfPose(StepReceived, NaturalKey)
PreviousKey == KeyOfPose(previous_received_pose[1], NaturalKey)

C15_NotifiedPerSample ==
    (last.op = "update" /\ last.result # "KeyError")
    => IF last.result = "jump"
       THEN last.invoked = <<>> /\ last.notified = None
       ELSE /\ Len(last.invoked) = Len(callbacks)
            /\ \A i \in 1..Len(callbacks) : last.invoked[i] = callbacks[i]
            /\ last.notified = Some(pose)

\* C16.  Recovery after a jump: once a sample J has been rejected as a
\* jump, the next move=true sample within the tolerances of J is accepted
\* and notified, starts a gesture of its own (relative_pose_init is its
\* converted pose, absolute_pose_init the output pose) and leaves the
\* output pose as it was; every accepted sample of a gesture in progress is
\* compounded relative to the sample that started the gesture.
RejectedKey == KeyOfPose(hist.rejected[1], NaturalKey)
C19_ReferencesTogether ==
    relative_pose_init # None => absolute_pose_init # None

\* C19 witness: a sample has been compounded from both references, in a
\* gesture that started from the pose given to set_pose.
C19_Witness ==
    /\ last.op = "update" /\ last.move /\ last.notified # None
    /\ previous_received_pose # None
    /\ relative_pose_init # None
    /\ absolute_pose_init = Some(RobotPose)
    /\ pose # RobotPose

\* C20.  After set_pose(p) the next notification is based on p: a
\* move=false sample publishes p, the first accepted sample of a gesture
\* publishes p, and an accepted sample of a gesture in progress publishes p
\* compounded with the device's motion since the start of the gesture (or
\* since the last sample accepted before the call).
BasedOn(p, reference) == Compound(Relative(StepReceived, reference), p)
C20_SetPoseTakesEffect ==
    [][(last.op = "set_pose" /\ last'.op = "update" /\ last'.notified # None)
       => IF ~last'.move
          THEN last'.notified = Some(pose)
          ELSE IF relative_pose_init = None
          THEN last'.notified = Some(BasedOn(pose, StepReceived))
          ELSE \/ last'.notified = Some(BasedOn(pose, relative_pose_init[1]))
               \/ last'.notified = Some(BasedOn(pose, hist.accepted[1]))]_vars

(***************************************************************************)
(* Properties of the server.                                               *)
(***************************************************************************)
\* The coroutine of the connection is processing a sample: it is inside
\* __update or inside __notify_subscribers.
Processing(ws) == task[ws] \in {"update", "notify"}

\* C9.  Atomic processing: while a sample is being processed (from the entry
\* into __update to the return from the last handler), no coroutine of
\* another connection is processing a sample, and none takes a step: the
\* processing of one sample is over before that of another starts.
C9_AtomicProcessing ==
    [][\A ws \in Connections :
         Processing(ws) =>
           \A other \in Connections \ {ws} :
              ~Processing(other) /\ ~Processing(other)' /\ task'[other] = task[other]]_vars

\* C9 witness: a sample is in the middle of its notifications (one handler
\* has been called, another has not) while a sample has arrived on the
\* other connection and waits.
C9_Witness ==
    /\ task["ws1"] = "notify"
    /\ pending # <<>> /\ Len(pending) < Len(callbacks)
    /\ task["ws2"] = "receive" /\ inbox["ws2"] # <<>>
    /\ nops >= 2

(***************************************************************************)
(* Properties of are_close.                                                *)
(***************************************************************************)
\* are_close has been called and has returned.
Returned == probe # None /\ probe[1].result # None

\* The rotations of ProbeQuats by their angles: cosine c/d, sine s/d, and
\* the angle in hundredths of a degree.
ProbeAngles ==
    <<[c |-> 1, s |-> 0, d |-> 1, deg |-> 0], [c |-> 12, s |-> 5, d |-> 13, deg |-> 2262],
      [c |-> 4, s |-> 3, d |-> 5, deg |-> 3687], [c |-> 3, s |-> 4, d |-> 5, deg |-> 5313],
      [c |-> 0, s |-> 1, d |-> 1, deg |-> 9000]>>
AngleOf(p) ==
    ProbeAngles[CHOOSE i \in 1..5 : RotOf(p) = RotOf(compose(Zero3, quat2mat(ProbeQuats[i])))]
DegOf(tol) == IF tol = AngTol THEN 3500 ELSE 1500

\* P and Q are close as the relative transform inv(P) Q has it: the
\* displacement from P to Q, in the axes of P (turned about Z by P's
\* angle), is within lin_tol on each axis, and the angle from P to Q is
\* within ang_tol.
RelativeWithin(P, Q, lin_tol, ang_tol) ==
    LET A == AngleOf(P)
        B == AngleOf(Q)
        tp == TransOf(P)
        tq == TransOf(Q)
        dx == tq.v[1] * tp.d - tp.v[1] * tq.d
        dy == tq.v[2] * tp.d - tp.v[2] * tq.d
        dz == tq.v[3] * tp.d - tp.v[3] * tq.d
        D == tp.d * tq.d
    IN  /\ Abs(A.c * dx + A.s * dy) <= lin_tol * A.d * D
        /\ Abs(A.c * dy - A.s * dx) <= lin_tol * A.d * D
        /\ Abs(dz) <= lin_tol * D
        /\ Abs(B.deg - A.deg) <= DegOf(ang_tol)

\* C10 as claimed: are_close is reflexive and symmetric, false when the
\* translation or the rotation from one pose to the other exceeds its
\* tolerance and true otherwise.
C10_ReflexiveSymmetric ==
    Returned =>
      LET r == probe[1]
      IN  /\ (r.a = r.b => r.result = Some(TRUE))
          /\ r.result = Some(are_close(r.b, r.a, r.lin_tol, r.ang_tol))
          /\ r.result = Some(RelativeWithin(r.a, r.b, r.lin_tol, r.ang_tol))

\* C10, amended.  are_close(P, P) is true; are_close(P, Q) is true exactly
\* when the translation of inv(P) Q is within lin_tol on each axis and its
\* rotation within ang_tol on each Euler angle; are_close(P, Q) equals
\* are_close(Q, P) when P and Q have the same rotation.
C10_ReflexiveRelative ==
    Returned =>
      LET r == probe[1]
      IN  /\ (r.a = r.b => r.result = Some(TRUE))
          /\ r.result = Some(RelativeWithin(r.a, r.b, r.lin_tol, r.ang_tol))
          /\ (RotOf(r.a) = RotOf(r.b) =>
                r.result = Some(are_close(r.b, r.a, r.lin_tol, r.ang_tol)))

\* C10 witness: are_close has returned true for two different poses of the
\* same rotation, not the identity, 0.1 m and 0.05 m apart along two axes.
C10_Witness ==
    /\ Returned
    /\ probe[1].result = Some(TRUE)
    /\ probe[1].a # probe[1].b
    /\ RotOf(probe[1].a) = RotOf(probe[1].b)
    /\ RotOf(probe[1].a).m # Eye3
    /\ TransOf(probe[1].a).v = <<0, 0, 0>>
    /\ TransOf(probe[1].b).v = <<2, 0, 1>>


(***************************************************************************)
(* Properties of LeTeleop.                                                 *)
(***************************************************************************)
\* C17.  The action get_action returns does not mix the pose of one
\* callback invocation with the gripper state or the home flag of another:
\* it is the action that matches the object as it was when the call took
\* the mutex, or as some callback that ended during the call left it.
C17_ConsistentAction ==
    control_thread.returned # None
    => control_thread.returned[1].action \in control_thread.returned[1].consistent


(***************************************************************************)
(* Properties of the objects.                                              *)
(***************************************************************************)
\* The objects that have been passed to the subscribers.
DeliveredObjects == {delivered[i].object : i \in 1..Len(delivered)}

\* C18.  The pose is replaced, never changed in place: a call changes the
\* contents of no object that has been passed to a subscriber or that
\* relative_pose_init or absolute_pose_init refers to, and the object an
\* accepted sample publishes is one that did not exist before the call.
C18_ReplacedWholesale ==
    [][/\ \A o \in DOMAIN heap :
             (o \in DeliveredObjects \cup {ref.relative_pose_init, ref.absolute_pose_init})
             => heap'[o] = heap[o]
       /\ (Len(delivered') > Len(delivered) /\ delivered'[Len(delivered')].move)
          => /\ delivered'[Len(delivered')].object \notin DOMAIN heap
             /\ delivered'[Len(delivered')].object = ref'.pose]_vars

\* C18 witness: two samples of a gesture have been published, as two
\* objects of different contents; absolute_pose_init refers to an object
\* that was passed to the subscribers before the gesture.
C18_Witness ==
    /\ Len(delivered) >= 3
    /\ delivered[Len(delivered)].move /\ delivered[Len(delivered) - 1].move
    /\ delivered[Len(delivered)].object # delivered[Len(delivered) - 1].object
    /\ heap[delivered[Len(delivered)].object] # heap[delivered[Len(delivered) - 1].object]
    /\ ref.absolute_pose_init = delivered[1].object
    /\ ref.absolute_pose_init # ref.pose

=============================================================================
